---- MODULE Spec2Model ----
(***************************************************************************)
(* A model of haystack/indexing/utils.py: the archive fetcher              *)
(* (fetch_archive_from_http) and the document converter                    *)
(* (convert_files_to_documents).                                           *)
(*                                                                         *)
(* Strings are sequences of one-character strings, so that slicing,        *)
(* splitting, stripping, glob matching and suffix extraction are computed, *)
(* not assumed.                                                            *)
(***************************************************************************)
EXTENDS Integers, Sequences, FiniteSets, TLC

VARIABLES
    \* ---- archive fetcher ----
    url,        \* the url argument
    archive,    \* the member names of the archive served at url, in archive order
    dirExists,  \* whether output_dir exists
    dir,        \* the entries under output_dir, at any depth
    tempExists, \* whether the NamedTemporaryFile exists on disk
    tempData,   \* what has been written to the temporary file
    fpc,        \* position of the current call of fetch_archive_from_http
    cur,        \* what the current call has done so far
    log,        \* one record per ended call, in call order
    \* ---- document converter ----
    files,          \* the files under dir_path, in directory enumeration order
    clean_func,     \* the clean_func argument
    split_paragraphs, \* the split_paragraphs argument
    file_paths,     \* the local file_paths
    pdf_converter,  \* the local pdf_converter
    documents,      \* the local documents
    done,           \* how many entries of file_paths the loop has handled
    cpc,            \* position of the call of convert_files_to_documents
    outcome         \* how the call of convert_files_to_documents ended

fvars == <<url, archive, dirExists, dir, tempExists, tempData, fpc, cur, log>>
cvars == <<files, clean_func, split_paragraphs, file_paths, pdf_converter,
           documents, done, cpc, outcome>>
vars == <<fvars, cvars>>

----------------------------------------------------------------------------
(* Bounds *)

\* calls of fetch_archive_from_http made one after the other
MaxCalls == 3
\* members of the archive served at the url
MaxMembers == 2
\* files under dir_path
MaxFiles == 2
\* characters of file content under dir_path, all files together
MaxChars == 3

----------------------------------------------------------------------------
(* Strings *)

\* s[-n:] of Python: the last n characters, the whole of a shorter string
LastChars(s, n) == SubSeq(s, IF Len(s) > n THEN Len(s) - n + 1 ELSE 1, Len(s))

ZipSuffixLen == 4
TarGzSuffixLen == 7
DotZip == <<".", "z", "i", "p">>
DotTarGz == <<".", "t", "a", "r", ".", "g", "z">>

----------------------------------------------------------------------------
(* Archive fetcher: fetch_archive_from_http                                *)

Urls == { <<"d", ".", "z", "i", "p">>,
          <<"d", ".", "t", "a", "r", ".", "g", "z">>,
          <<"d", ".", "t", "g", "z">>,
          <<"d", ".", "g", "z">> }

MemberNames == {"a.txt", "b.txt", "c.txt"}

SeqsUpTo(S, n) == UNION { [1..k -> S] : k \in 0..n }

\* an archive lists each member once
Archives == { a \in SeqsUpTo(MemberNames, MaxMembers) :
                \A i, j \in 1..Len(a) : i # j => a[i] # a[j] }

Entry(n, d) == [name |-> n, data |-> d]

\* what output_dir may hold before the first call
InitialDirs == { {},
                 {Entry("a.txt", "old")},
                 {Entry("sub", "dir")},
                 {Entry("sub", "dir"), Entry("sub/x.txt", "old")} }

RGlobFilesOnly(exists, d) == IF exists THEN { e \in d : e.data # "dir" } ELSE {}

\* Path(path).rglob("*"): every entry below the directory, at any depth;
\* nothing for a path that does not exist
RGlobAll(exists, d) == IF exists THEN d ELSE {}

IsNotEmptyAlways(exists, d) == FALSE

IsNotEmptyOffByOne(exists, d) == Cardinality(RGlobAll(exists, d)) > 1

\* is_not_empty = len(list(Path(path).rglob("*"))) > 0
IsNotEmpty(exists, d) == Cardinality(RGlobAll(exists, d)) > 0

MkdirNoop(exists) == exists

\* if not path.exists(): path.mkdir(parents=True)
Mkdir(exists) == TRUE

TempLeftOnRaise(raised) == raised

\* whether the temporary file still exists once the with block is left,
\* normally or by an exception
TempAfterWith(raised) == FALSE

\* extractall writes member n over whatever entry has that name
Put(d, n, data) == { e \in d : e.name # n } \cup { Entry(n, data) }

RECURSIVE ExtractMembers(_, _, _)
ExtractMembers(d, a, k) ==
    IF k = 0 THEN d ELSE Put(ExtractMembers(d, a, k - 1), a[k], "new")

\* the branch of lines 90-95 the url selects
Format(u) ==
    IF LastChars(u, ZipSuffixLen) = DotZip THEN "zip"
    ELSE IF LastChars(u, TarGzSuffixLen) = DotTarGz THEN "tar"
    ELSE "none"

NewCall == [before |-> dir, existed |-> dirExists, tempCreated |-> FALSE,
            downloaded |-> FALSE, extracted |-> FALSE, dirAtDownload |-> TRUE]

Ended(ret, stage, c, d, ex, t) ==
    [ret |-> ret, stage |-> stage, before |-> c.before, existed |-> c.existed,
     after |-> d, existsAfter |-> ex, tempCreated |-> c.tempCreated,
     downloaded |-> c.downloaded, extracted |-> c.extracted,
     dirAtDownload |-> c.dirAtDownload, tempAfter |-> t]

Idle == [before |-> {}, existed |-> FALSE, tempCreated |-> FALSE,
         downloaded |-> FALSE, extracted |-> FALSE, dirAtDownload |-> TRUE]

\* lines 71-73
Call ==
    /\ fpc = "idle"
    /\ Len(log) < MaxCalls
    /\ dirExists' = Mkdir(dirExists)
    /\ cur' = NewCall
    /\ fpc' = "check"
    /\ UNCHANGED <<url, archive, dir, tempExists, tempData, log, cvars>>

\* lines 72-73, path.mkdir raising
CallMkdirFails ==
    /\ fpc = "idle"
    /\ Len(log) < MaxCalls
    /\ ~dirExists
    /\ log' = Append(log, Ended("raise", "mkdir", NewCall, dir, dirExists, tempExists))
    /\ UNCHANGED <<url, archive, dirExists, dir, tempExists, tempData, fpc, cur, cvars>>

\* lines 75-80
Skip ==
    /\ fpc = "check"
    /\ IsNotEmpty(dirExists, dir)
    /\ log' = Append(log, Ended("false", "check", cur, dir, dirExists, tempExists))
    /\ fpc' = "idle"
    /\ cur' = Idle
    /\ UNCHANGED <<url, archive, dirExists, dir, tempExists, tempData, cvars>>

\* lines 75-76, 81-85
OpenTemp ==
    /\ fpc = "check"
    /\ ~IsNotEmpty(dirExists, dir)
    /\ tempExists' = TRUE
    /\ tempData' = <<>>
    /\ cur' = [cur EXCEPT !.tempCreated = TRUE, !.dirAtDownload = dirExists]
    /\ fpc' = "download"
    /\ UNCHANGED <<url, archive, dirExists, dir, log, cvars>>

\* lines 86-88
HttpGet ==
    /\ fpc = "download"
    /\ tempData' = archive
    /\ cur' = [cur EXCEPT !.downloaded = TRUE]
    /\ fpc' = "extract"
    /\ UNCHANGED <<url, archive, dirExists, dir, tempExists, log, cvars>>

\* line 86, http_get raising; the with block is left by the exception
HttpGetFails ==
    /\ fpc = "download"
    /\ tempExists' = TempAfterWith(TRUE)
    /\ tempData' = <<>>
    /\ log' = Append(log, Ended("raise", "download", cur, dir, dirExists, tempExists'))
    /\ fpc' = "idle"
    /\ cur' = Idle
    /\ UNCHANGED <<url, archive, dirExists, dir, cvars>>

\* lines 90-95, the archive opened and every member extracted
ExtractAll ==
    /\ fpc = "extract"
    /\ Format(url) # "none"
    /\ dir' = ExtractMembers(dir, tempData, Len(tempData))
    /\ cur' = [cur EXCEPT !.extracted = TRUE]
    /\ fpc' = "leave"
    /\ UNCHANGED <<url, archive, dirExists, tempExists, tempData, log, cvars>>

\* lines 90-95, ZipFile / tarfile.open / extractall raising: the first k members
\* are extracted, and the member that failed may be left behind, incomplete
ExtractFails ==
    /\ fpc = "extract"
    /\ Format(url) # "none"
    /\ \E k \in 0..Len(tempData), partial \in BOOLEAN :
         /\ partial => k < Len(tempData)
         /\ dir' = IF partial
                   THEN Put(ExtractMembers(dir, tempData, k), tempData[k + 1], "partial")
                   ELSE ExtractMembers(dir, tempData, k)
    /\ tempExists' = TempAfterWith(TRUE)
    /\ tempData' = <<>>
    /\ log' = Append(log, Ended("raise", "extract", cur, dir', dirExists, tempExists'))
    /\ fpc' = "idle"
    /\ cur' = Idle
    /\ UNCHANGED <<url, archive, dirExists, cvars>>

\* lines 90 and 93 both false: nothing is extracted
NoExtract ==
    /\ fpc = "extract"
    /\ Format(url) = "none"
    /\ fpc' = "leave"
    /\ UNCHANGED <<url, archive, dirExists, dir, tempExists, tempData, cur, log, cvars>>

\* lines 96-97
ReturnTrue ==
    /\ fpc = "leave"
    /\ tempExists' = TempAfterWith(FALSE)
    /\ tempData' = <<>>
    /\ log' = Append(log, Ended("true", "done", cur, dir, dirExists, tempExists'))
    /\ fpc' = "idle"
    /\ cur' = Idle
    /\ UNCHANGED <<url, archive, dirExists, dir, cvars>>

ConvIdle ==
    /\ files = <<>>
    /\ clean_func = "none"
    /\ split_paragraphs = FALSE
    /\ file_paths = <<>>
    /\ pdf_converter = "unset"
    /\ documents = <<>>
    /\ done = 0
    /\ cpc = "off"
    /\ outcome = "none"

InitFetch ==
    /\ url \in Urls
    /\ archive \in Archives
    /\ dirExists \in BOOLEAN
    /\ dir \in InitialDirs
    /\ ~dirExists => dir = {}
    /\ tempExists = FALSE
    /\ tempData = <<>>
    /\ fpc = "idle"
    /\ cur = Idle
    /\ log = <<>>
    /\ ConvIdle

NextFetch ==
    \/ Call
    \/ CallMkdirFails
    \/ Skip
    \/ OpenTemp
    \/ HttpGet
    \/ HttpGetFails
    \/ ExtractAll
    \/ ExtractFails
    \/ NoExtract
    \/ ReturnTrue

SpecFetch == InitFetch /\ [][NextFetch]_vars

----------------------------------------------------------------------------
(* Document converter: convert_files_to_documents                          *)

NL == "\n"
SP == " "
Alphabet == {"a", SP, NL}

\* the characters str.strip() removes
IsSpace(c) == c \in {SP, NL, "\t", "\r"}

RECURSIVE LStrip(_)
LStrip(s) == IF s # <<>> /\ IsSpace(Head(s)) THEN LStrip(Tail(s)) ELSE s

RECURSIVE RStrip(_)
RStrip(s) ==
    IF s # <<>> /\ IsSpace(s[Len(s)]) THEN RStrip(SubSeq(s, 1, Len(s) - 1)) ELSE s

\* str.strip()
Strip(s) == RStrip(LStrip(s))

Min(S) == CHOOSE x \in S : \A y \in S : x <= y
Max(S) == CHOOSE x \in S : \A y \in S : x >= y

Sep == <<NL, NL>>

\* str.split(sep): cut at each occurrence of sep, found from the left, the
\* next one searched after the end of the one before
RECURSIVE Split(_, _)
Split(s, sep) ==
    LET hits == { i \in 1..(Len(s) - Len(sep) + 1) :
                    SubSeq(s, i, i + Len(sep) - 1) = sep }
    IN  IF hits = {} THEN <<s>>
        ELSE <<SubSeq(s, 1, Min(hits) - 1)>>
             \o Split(SubSeq(s, Min(hits) + Len(sep), Len(s)), sep)

\* a clean_func of the caller: every line break becomes a paragraph break
RECURSIVE ParagraphBreaks(_)
ParagraphBreaks(s) ==
    IF s = <<>> THEN <<>>
    ELSE (IF Head(s) = NL THEN <<NL, NL>> ELSE <<Head(s)>>) \o ParagraphBreaks(Tail(s))

Cleaners == {"none", "breaks"}

\* clean_func(text), for a clean_func that is not None
ApplyClean(f, text) == IF f = "breaks" THEN ParagraphBreaks(text) ELSE text

CleanedTwice(f, text) == IF f # "none" THEN ApplyClean(f, ApplyClean(f, text)) ELSE text

\* lines 44-45
Cleaned(f, text) == IF f # "none" THEN ApplyClean(f, text) ELSE text

ExtTxt == <<".", "t", "x", "t">>
ExtPdf == <<".", "p", "d", "f">>
\* for ext in ("**/*.txt", "**/*.pdf")
Patterns == <<ExtTxt, ExtPdf>>

\* whether Path(dir_path).glob("**/*" + ext) yields a file of this name: the
\* name ends with ext, with any characters, or none, before it
GlobMatch(name, ext) == LastChars(name, Len(ext)) = ext

\* PurePath.suffix: the name from its last dot on, when that dot is neither
\* the first nor the last character of the name; the empty string otherwise
Suffix(name) ==
    LET dots == { i \in 1..Len(name) : name[i] = "." }
    IN  IF dots = {} THEN <<>>
        ELSE IF 1 < Max(dots) /\ Max(dots) < Len(name)
             THEN SubSeq(name, Max(dots), Len(name))
             ELSE <<>>

\* line 27: the files under dir_path the pattern yields, in enumeration order
Glob(fs, ext) == SelectSeq(fs, LAMBDA f : GlobMatch(f.name, ext))

\* lines 25-28: file_paths after the loop over the patterns
RECURSIVE Discovered(_, _)
Discovered(fs, k) ==
    IF k = 0 THEN <<>> ELSE Discovered(fs, k - 1) \o Glob(fs, Patterns[k])

\* lines 29-32: pdf_converter as the last pass of the loop leaves it
Converter(fs) ==
    IF \E i \in 1..Len(Glob(fs, Patterns[Len(Patterns)])) :
            Suffix(Glob(fs, Patterns[Len(Patterns)])[i].name) = ExtPdf
    THEN "PDFToText"
    ELSE "None"

ParagraphsNoSkip(text) == Split(text, Sep)

ParagraphsStripped(text) ==
    LET kept == SelectSeq(Split(text, Sep), LAMBDA para : Strip(para) # <<>>)
    IN  [i \in 1..Len(kept) |-> Strip(kept[i])]

\* lines 48-51
Paragraphs(text) == SelectSeq(Split(text, Sep), LAMBDA para : Strip(para) # <<>>)

\* lines 47-53: the records one file adds
Records(text, split) == IF split THEN Paragraphs(text) ELSE <<text>>

File(n, t) == [name |-> n, text |-> t]

\* the order in which the directory walk meets the names it may find
NameOrder == << <<"c", ".", "p", "d", "f">>,
                <<"b", ".", "t", "x", "t">>,
                <<"d", ".", "d", "o", "c", "x">>,
                <<".", "t", "x", "t">>,
                <<"a", ".", "t", "x", "t">> >>

\* the directories made of at most `slots` of the names from position i on,
\* holding at most `budget` characters in all
RECURSIVE DirsFrom(_, _, _)
DirsFrom(i, budget, slots) ==
    IF i > Len(NameOrder) THEN { <<>> }
    ELSE DirsFrom(i + 1, budget, slots)
         \cup (IF slots = 0 THEN {}
               ELSE UNION { { <<File(NameOrder[i], t)>> \o rest :
                                rest \in DirsFrom(i + 1, budget - Len(t), slots - 1) } :
                            t \in SeqsUpTo(Alphabet, budget) })

\* the text of the paragraph example: a, b, a paragraph of two spaces, c
ExampleText == <<"a", NL, NL, "b", NL, NL, SP, SP, NL, NL, "c">>

Dirs == DirsFrom(1, MaxChars, MaxFiles)
        \cup { <<File(NameOrder[5], ExampleText)>>,
               <<File(NameOrder[1], ExampleText), File(NameOrder[3], <<"a">>)>> }

\* the path the loop of line 35 is at
Path == file_paths[done + 1]

Supported(name) == Suffix(name) \in {ExtTxt, ExtPdf}

\* lines 25-34
Discover ==
    /\ cpc = "start"
    /\ file_paths' = Discovered(files, Len(Patterns))
    /\ pdf_converter' = Converter(files)
    /\ documents' = <<>>
    /\ done' = 0
    /\ cpc' = "loop"
    /\ UNCHANGED <<files, clean_func, split_paragraphs, outcome, fvars>>

\* lines 35-53, one pass of the loop, for a path with a supported suffix
Convert ==
    /\ cpc = "loop"
    /\ done < Len(file_paths)
    /\ Supported(Path.name)
    /\ Suffix(Path.name) = ExtPdf => pdf_converter = "PDFToText"
    /\ documents' = documents \o Records(Cleaned(clean_func, Path.text), split_paragraphs)
    /\ done' = done + 1
    /\ UNCHANGED <<files, clean_func, split_paragraphs, file_paths, pdf_converter,
                   cpc, outcome, fvars>>

\* lines 37-40: open, read or extract_text raising
ReadFails ==
    /\ cpc = "loop"
    /\ done < Len(file_paths)
    /\ Supported(Path.name)
    /\ outcome' = IF Suffix(Path.name) = ExtPdf /\ pdf_converter = "None"
                  THEN "no converter" ELSE "read error"
    /\ cpc' = "ended"
    /\ UNCHANGED <<files, clean_func, split_paragraphs, file_paths, pdf_converter,
                   documents, done, fvars>>

\* lines 41-42
Unsupported ==
    /\ cpc = "loop"
    /\ done < Len(file_paths)
    /\ ~Supported(Path.name)
    /\ outcome' = "unsupported"
    /\ cpc' = "ended"
    /\ UNCHANGED <<files, clean_func, split_paragraphs, file_paths, pdf_converter,
                   documents, done, fvars>>

\* line 55
Return ==
    /\ cpc = "loop"
    /\ done = Len(file_paths)
    /\ outcome' = "returned"
    /\ cpc' = "ended"
    /\ UNCHANGED <<files, clean_func, split_paragraphs, file_paths, pdf_converter,
                   documents, done, fvars>>

FetchIdle ==
    /\ url = <<>>
    /\ archive = <<>>
    /\ dirExists = FALSE
    /\ dir = {}
    /\ tempExists = FALSE
    /\ tempData = <<>>
    /\ fpc = "off"
    /\ cur = Idle
    /\ log = <<>>

InitConv ==
    /\ files \in Dirs
    /\ clean_func \in Cleaners
    /\ split_paragraphs \in BOOLEAN
    /\ file_paths = <<>>
    /\ pdf_converter = "unset"
    /\ documents = <<>>
    /\ done = 0
    /\ cpc = "start"
    /\ outcome = "none"
    /\ FetchIdle

NextConv ==
    \/ Discover
    \/ Convert
    \/ ReadFails
    \/ Unsupported
    \/ Return

SpecConv == InitConv /\ [][NextConv]_vars

----------------------------------------------------------------------------
(* Archive fetcher: claims                                                 *)

Calls == 1..Len(log)

\* C1, as stated, for a url ending in .zip or .tar.gz and two calls that both
\* return: starting from an empty or missing directory, the first call
\* returns true and populates the directory, the second returns false and
\* leaves the contents unchanged.
C1_TwiceAsStated ==
    (/\ Len(log) >= 2
     /\ Format(url) # "none"
     /\ log[1].before = {}
     /\ log[1].ret # "raise"
     /\ log[2].ret # "raise")
    => /\ log[1].ret = "true"
       /\ log[1].after # {}
       /\ log[2].ret = "false"
       /\ log[2].after = log[2].before

\* C1, amended: starting from an empty or missing directory, the first call,
\* if it returns, returns true; when it left at least one entry, the second
\* call returns false, downloads nothing and leaves the contents unchanged;
\* when it left none, the second call does not take the skip branch.
C1_TwiceAmended ==
    (Len(log) >= 2 /\ log[1].before = {})
    => /\ log[1].ret # "raise" => log[1].ret = "true"
       /\ log[2].before = log[1].after
       /\ log[1].after # {} =>
            /\ log[2].ret = "false"
            /\ ~log[2].tempCreated
            /\ ~log[2].downloaded
            /\ log[2].after = log[1].after
       /\ log[1].after = {} => log[2].ret # "false"

C1_Witness ==
    /\ Len(log) >= 2
    /\ ~log[1].existed
    /\ log[1].ret = "true"
    /\ log[1].after # {}
    /\ log[2].ret = "false"
    /\ log[2].after = log[1].after

\* C2: a call returns true exactly when it downloaded and extracted the
\* archive, and over the calls made the archive is downloaded and extracted
\* no more than once.
C2_TrueIffFetchedOnce ==
    /\ \A i \in Calls :
         log[i].ret = "true" <=> (log[i].downloaded /\ log[i].extracted)
    /\ Cardinality({ i \in Calls : log[i].downloaded /\ log[i].extracted }) <= 1

\* C4: the temporary file does not exist once a call has ended, whichever way
\* the call ended.
C4_TempReleased ==
    /\ fpc = "idle" => ~tempExists
    /\ \A i \in Calls : ~log[i].tempAfter

C4_Witness ==
    /\ \E i \in Calls : log[i].stage = "done" /\ log[i].tempCreated
    /\ \E i \in Calls : log[i].stage = "download" /\ log[i].tempCreated
    /\ \E i \in Calls : log[i].stage = "extract" /\ log[i].tempCreated
    /\ ~tempExists

\* C7: a call that finds an entry under the output directory, at any depth,
\* creates no temporary file, downloads and extracts nothing, leaves the
\* directory as it was and returns false.
C7_PopulatedIsNoOp ==
    /\ \A i \in Calls :
         log[i].before # {} =>
            /\ log[i].ret = "false"
            /\ ~log[i].tempCreated
            /\ ~log[i].downloaded
            /\ ~log[i].extracted
            /\ log[i].after = log[i].before
    /\ (fpc # "idle" /\ cur.before # {}) =>
            /\ fpc = "check"
            /\ ~tempExists
            /\ dir = cur.before

C7_Witness ==
    \E i \in Calls :
        /\ Entry("sub/x.txt", "old") \in log[i].before
        /\ log[i].ret = "false"
        /\ log[i].after = log[i].before

\* C8: the output directory exists from the moment the temporary file is
\* created and the download starts, and still exists after a call whose
\* download failed, also when it did not exist before the call.
C8_DirCreatedFirst ==
    /\ fpc \in {"download", "extract", "leave"} => dirExists
    /\ tempExists => dirExists
    /\ \A i \in Calls :
         log[i].tempCreated => (log[i].dirAtDownload /\ log[i].existsAfter)

C8_Witness ==
    \E i \in Calls :
        /\ ~log[i].existed
        /\ log[i].stage = "download"
        /\ log[i].ret = "raise"
        /\ log[i].dirAtDownload
        /\ log[i].existsAfter

\* C10, as stated: a call that raises during download or extraction leaves
\* the output directory without entries, and the next call does not take
\* the skip branch: it attempts the download again.
C10_RaiseLeavesEmpty ==
    \A i \in Calls :
        (log[i].ret = "raise" /\ log[i].stage \in {"download", "extract"})
        => /\ log[i].after = {}
           /\ i < Len(log) => log[i + 1].tempCreated

\* C10, amended: a call that raises during download leaves the directory
\* without entries; a call that raises during extraction leaves what
\* extractall wrote before it failed, and nothing else; the next call
\* attempts the download again exactly when no entry was left, and takes the
\* skip branch otherwise.
C10_RaiseAmended ==
    \A i \in Calls :
        (log[i].ret = "raise" /\ log[i].stage \in {"download", "extract"})
        => /\ log[i].before = {}
           /\ log[i].stage = "download" => log[i].after = {}
           /\ \A e \in log[i].after :
                /\ \E k \in 1..Len(archive) : archive[k] = e.name
                /\ e.data \in {"new", "partial"}
           /\ i < Len(log) =>
                /\ log[i].after = {} => log[i + 1].tempCreated
                /\ log[i].after # {} =>
                     /\ log[i + 1].ret = "false"
                     /\ ~log[i + 1].tempCreated

C10_Witness ==
    /\ \E i \in Calls :
         /\ i < Len(log)
         /\ log[i].stage = "extract"
         /\ log[i].after # {}
         /\ log[i + 1].ret = "false"
    /\ \E i \in Calls :
         /\ i < Len(log)
         /\ log[i].stage = "download"
         /\ log[i + 1].tempCreated

----------------------------------------------------------------------------
(* Document converter: claims                                              *)

Handled == 1..done

\* the text of discovered file i as line 45 leaves it
CleanText(i) ==
    IF clean_func = "none" THEN file_paths[i].text
    ELSE ApplyClean(clean_func, file_paths[i].text)

RECURSIVE Flatten(_)
Flatten(ss) == IF ss = <<>> THEN <<>> ELSE Head(ss) \o Flatten(Tail(ss))

Visible(s) == SelectSeq(s, LAMBDA c : ~IsSpace(c))

HasSep(s) == \E i \in 1..(Len(s) - 1) : s[i] = NL /\ s[i + 1] = NL

\* C3, as stated: every returned record has non-empty text, in both modes
\* and for every file content.
C3_AllNonEmpty ==
    outcome = "returned" => \A i \in 1..Len(documents) : documents[i] # <<>>

\* C3, amended: with split_paragraphs true every record holds a character
\* that is not whitespace; with split_paragraphs false the record of a file
\* is empty exactly when the file's cleaned content is empty.
C3_NonEmptyAmended ==
    /\ split_paragraphs =>
         \A i \in 1..Len(documents) :
            \E j \in 1..Len(documents[i]) : ~IsSpace(documents[i][j])
    /\ ~split_paragraphs =>
         /\ Len(documents) = done
         /\ \A i \in Handled : documents[i] = <<>> <=> CleanText(i) = <<>>

C3_Witness ==
    /\ outcome = "returned"
    /\ split_paragraphs
    /\ \E i \in Handled :
         /\ file_paths[i].text # <<>>
         /\ \A j \in 1..Len(file_paths[i].text) : IsSpace(file_paths[i].text[j])
    /\ \E i \in Handled : file_paths[i].text = <<>>
    /\ documents = <<>>

\* C5: with split_paragraphs false there is one record per discovered file,
\* in the order the files are processed, holding the file's content with the
\* cleaning function, if any, applied once.
C5_OnePerFile ==
    ~split_paragraphs =>
        /\ Len(documents) = done
        /\ \A i \in Handled : documents[i] = CleanText(i)
        /\ outcome = "returned" => Len(documents) = Len(file_paths)

C5_Witness ==
    /\ outcome = "returned"
    /\ ~split_paragraphs
    /\ clean_func = "breaks"
    /\ Len(files) = 2
    /\ Len(documents) = 2
    /\ files[1].name = file_paths[2].name
    /\ \E j \in 1..Len(file_paths[1].text) : file_paths[1].text[j] = NL
    /\ documents[1] # file_paths[1].text

\* C6: with split_paragraphs true the records are, file after file, the
\* pieces between the paragraph breaks of the cleaned text that hold more
\* than whitespace, in order: no record holds a paragraph break or is blank,
\* no visible character is lost or moved, and the example text a, blank
\* line, b, blank line, two spaces, blank line, c gives the records a, b, c.
C6_Paragraphs ==
    split_paragraphs =>
        /\ documents =
             Flatten([i \in Handled |->
                        SelectSeq(Split(CleanText(i), Sep),
                                  LAMBDA para : Strip(para) # <<>>)])
        /\ \A i \in 1..Len(documents) :
             /\ ~HasSep(documents[i])
             /\ Visible(documents[i]) # <<>>
        /\ Visible(Flatten(documents))
             = Visible(Flatten([i \in Handled |-> CleanText(i)]))
        /\ (/\ done = 1
            /\ file_paths[1].text = ExampleText
            /\ clean_func = "none")
           => documents = << <<"a">>, <<"b">>, <<"c">> >>

C6_Witness ==
    /\ outcome = "returned"
    /\ split_paragraphs
    /\ clean_func = "none"
    /\ Len(file_paths) = 1
    /\ file_paths[1].text = ExampleText
    /\ documents = << <<"a">>, <<"b">>, <<"c">> >>

\* C9: every discovered path is handled by the .txt or the .pdf branch, so
\* the unsupported-format error is never raised, and a .docx file under the
\* root is never discovered.
C9_UnsupportedUnreachable ==
    /\ outcome # "unsupported"
    /\ \A i \in 1..Len(file_paths) : file_paths[i].name # NameOrder[3]

====
